---- MODULE Spec2Model ----
(***************************************************************************)
(* Walk the Dog: the player (RedHatBoy) state machine, the obstacles, the  *)
(* world aggregate (Walk) and the outer game state machine of              *)
(* src/src/game.rs.                                                        *)
(***************************************************************************)
EXTENDS Integers, Sequences, FiniteSets, TLC

(***************************************************************************)
(* Program constants.                                                      *)
(***************************************************************************)
HEIGHT == 600
TIMELINE_MINIMUM == 1000
OBSTACLE_BUFFER == 20

FLOOR == 479
PLAYER_HEIGHT == HEIGHT - FLOOR
STARTING_POINT == -20
IDLE_FRAMES == 29
RUNNING_FRAMES == 23
JUMPING_FRAMES == 35
SLIDING_FRAMES == 14
FALLING_FRAMES == 29

RUNNING_SPEED == 3
JUMP_SPEED == -27
GRAVITY == 1
TERMINAL_VELOCITY == 18

X_OFFSET == 18
Y_OFFSET == 14
WIDTH_OFFSET == 28

(***************************************************************************)
(* Geometry of the first segment, as placed by the earlier revision of     *)
(* initialize.                                                             *)
(***************************************************************************)
FIRST_PLATFORM == 200
LOW_PLATFORM == 400
INITIAL_STONE_OFFSET == 150
STONE_ON_GROUND == 546

(***************************************************************************)
(* Bounds of the model.                                                    *)
(***************************************************************************)
\* Walking ticks explored per episode, restarts explored, clicks queued
MaxTicks == 65
MaxEpisodes == 2
MaxClicks == 2

\* the clock value up to which animation-frame callbacks are explored, and
\* the callbacks of one load_image call that fire
MaxPerf == 5000
MaxFired == 3

\* key sets read while walking on a page whose prompt may fail
UiKeys == {{}, {"Space"}}

\* surfaces a Land event may name when events are injected directly
SurfaceYs == {LOW_PLATFORM, HEIGHT}

\* inputs of a single collision check: player heights and vertical speeds,
\* platform positions
HitYs == {279, 280, 390, 399, 400, 401, 439, 440, 478, 479}
HitVys == {-27, -1, 0, 1, 18}
HitXs == {-500, -330, -300, -100, 0, 97, 98, 200}

Point(x, y) == [x |-> x, y |-> y]

(***************************************************************************)
(* enum Event                                                              *)
(***************************************************************************)
EventTypes == {"Run", "Slide", "Update", "Jump", "KnockOut", "Land"}

Event(type, position) == [type |-> type, position |-> position]

States == {"Idle", "Running", "Sliding", "Jumping", "Falling", "KnockedOut"}

(***************************************************************************)
(* RedHatBoyContext and its methods.  A player is a record                 *)
(* [state, frame, position, velocity]: the state tag of                    *)
(* RedHatBoyStateMachine together with the fields of its context.          *)
(***************************************************************************)
Boy(state, frame, position, velocity) ==
    [state |-> state, frame |-> frame, position |-> position, velocity |-> velocity]

\* RedHatBoyState<Idle>::new
Idle_new == Boy("Idle", 0, Point(STARTING_POINT, FLOOR), Point(0, 0))

\* update with gravity added whatever the velocity
update_NoTerminal(self, frame_count) ==
    LET vy == self.velocity.y + GRAVITY
        fr == IF self.frame < frame_count THEN self.frame + 1 ELSE 0
        py == self.position.y + vy
    IN  [self EXCEPT !.velocity.y = vy,
                     !.frame = fr,
                     !.position.y = IF py > FLOOR THEN FLOOR ELSE py]

\* update without the clamp to the floor
update_NoClamp(self, frame_count) ==
    LET vy == IF self.velocity.y < TERMINAL_VELOCITY
              THEN self.velocity.y + GRAVITY
              ELSE self.velocity.y
        fr == IF self.frame < frame_count THEN self.frame + 1 ELSE 0
    IN  [self EXCEPT !.velocity.y = vy,
                     !.frame = fr,
                     !.position.y = self.position.y + vy]

\* update wrapping the frame one tick early
update_WrapsEarly(self, frame_count) ==
    LET vy == IF self.velocity.y < TERMINAL_VELOCITY
              THEN self.velocity.y + GRAVITY
              ELSE self.velocity.y
        fr == IF self.frame + 1 < frame_count THEN self.frame + 1 ELSE 0
        py == self.position.y + vy
    IN  [self EXCEPT !.velocity.y = vy,
                     !.frame = fr,
                     !.position.y = IF py > FLOOR THEN FLOOR ELSE py]

\* RedHatBoyContext::update
update(self, frame_count) ==
    LET vy == IF self.velocity.y < TERMINAL_VELOCITY
              THEN self.velocity.y + GRAVITY
              ELSE self.velocity.y
        fr == IF self.frame < frame_count THEN self.frame + 1 ELSE 0
        py == self.position.y + vy
    IN  [self EXCEPT !.velocity.y = vy,
                     !.frame = fr,
                     !.position.y = IF py > FLOOR THEN FLOOR ELSE py]

reset_frame(self) == [self EXCEPT !.frame = 0]

set_vertical_velocity(self, y) == [self EXCEPT !.velocity.y = y]

run_right(self) == [self EXCEPT !.velocity.x = self.velocity.x + RUNNING_SPEED]

stop_Keeps(self) == self

stop(self) == [self EXCEPT !.velocity.x = 0]

\* set_on that forgets the player's height
set_on_NoHeight(self, position) == [self EXCEPT !.position.y = position]

set_on(self, position) == [self EXCEPT !.position.y = position - PLAYER_HEIGHT]

\* play_jump_sound calling the jump off when the sound fails
play_jump_sound_Aborts(self, play_ok) ==
    IF play_ok THEN self ELSE set_vertical_velocity(self, 0)

\* the outcome of audio.play_sound is logged and dropped
play_jump_sound(self, play_ok) == self

(***************************************************************************)
(* The typestate methods RedHatBoyState<S>::*                              *)
(***************************************************************************)
Idle_update(self) == update(self, IDLE_FRAMES)

\* a run that starts the player moving and leaves it Idle
Idle_run_Stays(self) == run_right(reset_frame(self))

\* Idle.run without the frame reset
Idle_run_KeepsFrame(self) == [run_right(self) EXCEPT !.state = "Running"]

Idle_run(self) == [run_right(reset_frame(self)) EXCEPT !.state = "Running"]

Running_update(self) == update(self, RUNNING_FRAMES)

\* Running.jump without the frame reset
Running_jump_KeepsFrame(self, play_ok) ==
    [play_jump_sound(set_vertical_velocity(self, JUMP_SPEED), play_ok)
        EXCEPT !.state = "Jumping"]

Running_jump(self, play_ok) ==
    [play_jump_sound(set_vertical_velocity(reset_frame(self), JUMP_SPEED), play_ok)
        EXCEPT !.state = "Jumping"]

\* Running.slide without the frame reset
Running_slide_KeepsFrame(self) == [self EXCEPT !.state = "Sliding"]

Running_slide(self) == [reset_frame(self) EXCEPT !.state = "Sliding"]

Running_knock_out(self) == [stop(reset_frame(self)) EXCEPT !.state = "Falling"]

Running_land_on(self, position) == [set_on(self, position) EXCEPT !.state = "Running"]

\* Jumping.land_on that also brings the player to rest
Jumping_land_on_Rest(self, position) ==
    [set_vertical_velocity(set_on(reset_frame(self), position), 0) EXCEPT !.state = "Running"]

Jumping_land_on(self, position) ==
    [set_on(reset_frame(self), position) EXCEPT !.state = "Running"]

Jumping_update(self) ==
    LET s == update(self, JUMPING_FRAMES)
    IN  IF s.position.y >= FLOOR THEN Jumping_land_on(s, HEIGHT) ELSE s

\* Jumping.knock_out without the frame reset
Jumping_knock_out_KeepsFrame(self) == [stop(self) EXCEPT !.state = "Falling"]

Jumping_knock_out(self) == [stop(reset_frame(self)) EXCEPT !.state = "Falling"]

Sliding_stand(self) == [reset_frame(self) EXCEPT !.state = "Running"]

\* Sliding.update standing up only past the budget
Sliding_update_Late(self) ==
    LET s == update(self, SLIDING_FRAMES)
    IN  IF s.frame > SLIDING_FRAMES THEN Sliding_stand(s) ELSE s

Sliding_update(self) ==
    LET s == update(self, SLIDING_FRAMES)
    IN  IF s.frame >= SLIDING_FRAMES THEN Sliding_stand(s) ELSE s

Sliding_knock_out(self) == [stop(reset_frame(self)) EXCEPT !.state = "Falling"]

\* Sliding.land_on that stands the player up
Sliding_land_on_Stands(self, position) == [set_on(self, position) EXCEPT !.state = "Running"]

Sliding_land_on(self, position) == [set_on(self, position) EXCEPT !.state = "Sliding"]

Falling_knock_out(self) == [self EXCEPT !.state = "KnockedOut"]

\* Falling.update knocking out one frame early
Falling_update_Early(self) ==
    LET s == update(self, FALLING_FRAMES)
    IN  IF s.frame >= FALLING_FRAMES - 1 THEN Falling_knock_out(s) ELSE s

Falling_update(self) ==
    LET s == update(self, FALLING_FRAMES)
    IN  IF s.frame >= FALLING_FRAMES THEN Falling_knock_out(s) ELSE s

\* transition with a row that lets a knocked-out player run again
transition_GetsUp(self, event, play_ok) ==
    LET st == self.state
        ty == event.type
    IN  CASE st = "Idle"    /\ ty = "Run"      -> Idle_run(self)
          [] st = "Running" /\ ty = "Jump"     -> Running_jump(self, play_ok)
          [] st = "Running" /\ ty = "Slide"    -> Running_slide(self)
          [] st = "Idle"    /\ ty = "Update"   -> Idle_update(self)
          [] st = "Running" /\ ty = "Update"   -> Running_update(self)
          [] st = "Jumping" /\ ty = "Update"   -> Jumping_update(self)
          [] st = "Sliding" /\ ty = "Update"   -> Sliding_update(self)
          [] st = "Falling" /\ ty = "Update"   -> Falling_update(self)
          [] st = "Running" /\ ty = "KnockOut" -> Running_knock_out(self)
          [] st = "Jumping" /\ ty = "KnockOut" -> Jumping_knock_out(self)
          [] st = "Sliding" /\ ty = "KnockOut" -> Sliding_knock_out(self)
          [] st = "Jumping" /\ ty = "Land"     -> Jumping_land_on(self, event.position)
          [] st = "Running" /\ ty = "Land"     -> Running_land_on(self, event.position)
          [] st = "Sliding" /\ ty = "Land"     -> Sliding_land_on(self, event.position)
          [] st = "KnockedOut" /\ ty = "Run" -> Idle_run(self)
          [] OTHER -> self

\* transition with a row that speeds a running player up on Run
transition_RunAgain(self, event, play_ok) ==
    LET st == self.state
        ty == event.type
    IN  CASE st = "Idle"    /\ ty = "Run"      -> Idle_run(self)
          [] st = "Running" /\ ty = "Jump"     -> Running_jump(self, play_ok)
          [] st = "Running" /\ ty = "Slide"    -> Running_slide(self)
          [] st = "Idle"    /\ ty = "Update"   -> Idle_update(self)
          [] st = "Running" /\ ty = "Update"   -> Running_update(self)
          [] st = "Jumping" /\ ty = "Update"   -> Jumping_update(self)
          [] st = "Sliding" /\ ty = "Update"   -> Sliding_update(self)
          [] st = "Falling" /\ ty = "Update"   -> Falling_update(self)
          [] st = "Running" /\ ty = "KnockOut" -> Running_knock_out(self)
          [] st = "Jumping" /\ ty = "KnockOut" -> Jumping_knock_out(self)
          [] st = "Sliding" /\ ty = "KnockOut" -> Sliding_knock_out(self)
          [] st = "Jumping" /\ ty = "Land"     -> Jumping_land_on(self, event.position)
          [] st = "Running" /\ ty = "Land"     -> Running_land_on(self, event.position)
          [] st = "Sliding" /\ ty = "Land"     -> Sliding_land_on(self, event.position)
          [] st = "Running" /\ ty = "Run"      -> run_right(self)
          [] OTHER -> self

\* transition with a row that lets an idle player jump
transition_IdleJumps(self, event, play_ok) ==
    LET st == self.state
        ty == event.type
    IN  CASE st = "Idle"    /\ ty = "Run"      -> Idle_run(self)
          [] st = "Running" /\ ty = "Jump"     -> Running_jump(self, play_ok)
          [] st = "Running" /\ ty = "Slide"    -> Running_slide(self)
          [] st = "Idle"    /\ ty = "Update"   -> Idle_update(self)
          [] st = "Running" /\ ty = "Update"   -> Running_update(self)
          [] st = "Jumping" /\ ty = "Update"   -> Jumping_update(self)
          [] st = "Sliding" /\ ty = "Update"   -> Sliding_update(self)
          [] st = "Falling" /\ ty = "Update"   -> Falling_update(self)
          [] st = "Running" /\ ty = "KnockOut" -> Running_knock_out(self)
          [] st = "Jumping" /\ ty = "KnockOut" -> Jumping_knock_out(self)
          [] st = "Sliding" /\ ty = "KnockOut" -> Sliding_knock_out(self)
          [] st = "Jumping" /\ ty = "Land"     -> Jumping_land_on(self, event.position)
          [] st = "Running" /\ ty = "Land"     -> Running_land_on(self, event.position)
          [] st = "Sliding" /\ ty = "Land"     -> Sliding_land_on(self, event.position)
          [] st = "Idle"    /\ ty = "Jump"     -> Running_jump(self, play_ok)
          [] OTHER -> self

(***************************************************************************)
(* RedHatBoyStateMachine::transition                                       *)
(***************************************************************************)
transition(self, event, play_ok) ==
    LET st == self.state
        ty == event.type
    IN  CASE st = "Idle"    /\ ty = "Run"      -> Idle_run(self)
          [] st = "Running" /\ ty = "Jump"     -> Running_jump(self, play_ok)
          [] st = "Running" /\ ty = "Slide"    -> Running_slide(self)
          [] st = "Idle"    /\ ty = "Update"   -> Idle_update(self)
          [] st = "Running" /\ ty = "Update"   -> Running_update(self)
          [] st = "Jumping" /\ ty = "Update"   -> Jumping_update(self)
          [] st = "Sliding" /\ ty = "Update"   -> Sliding_update(self)
          [] st = "Falling" /\ ty = "Update"   -> Falling_update(self)
          [] st = "Running" /\ ty = "KnockOut" -> Running_knock_out(self)
          [] st = "Jumping" /\ ty = "KnockOut" -> Jumping_knock_out(self)
          [] st = "Sliding" /\ ty = "KnockOut" -> Sliding_knock_out(self)
          [] st = "Jumping" /\ ty = "Land"     -> Jumping_land_on(self, event.position)
          [] st = "Running" /\ ty = "Land"     -> Running_land_on(self, event.position)
          [] st = "Sliding" /\ ty = "Land"     -> Sliding_land_on(self, event.position)
          [] OTHER -> self

\* RedHatBoy::reset handing the player back as it is
RedHatBoy_reset_Keeps(self) == self

\* RedHatBoy::reset: RedHatBoy::new, a machine in Idle with a new context
RedHatBoy_reset(self) == Idle_new

\* knocked_out that holds as soon as the player falls
knocked_out_Falling(self) == self.state \in {"Falling", "KnockedOut"}

\* RedHatBoyStateMachine::knocked_out
knocked_out(self) == self.state = "KnockedOut"


(***************************************************************************)
(* engine::Rect, engine::Image                                             *)
(***************************************************************************)
Rect(x, y, width, height) == [position |-> Point(x, y), width |-> width, height |-> height]

right(rect) == rect.position.x + rect.width

bottom(rect) == rect.position.y + rect.height

intersects(a, b) ==
    /\ a.position.x < right(b)
    /\ right(a) > b.position.x
    /\ a.position.y < bottom(b)
    /\ bottom(a) > b.position.y

set_x(rect, x) == [rect EXCEPT !.position.x = x]

(***************************************************************************)
(* Assets: the sprite cell of the player, the stone and background images. *)
(***************************************************************************)
SPRITE_SOURCE_X == 0
SPRITE_SOURCE_Y == 0
SPRITE_W == 128
SPRITE_H == 121
STONE_WIDTH == 25
STONE_HEIGHT == 54
BACKGROUND_WIDTH == 8

\* the frame count of the animation a state plays; KnockedOut plays "Dead"
frame_budget(state) ==
    CASE state = "Idle" -> IDLE_FRAMES
      [] state = "Running" -> RUNNING_FRAMES
      [] state = "Jumping" -> JUMPING_FRAMES
      [] state = "Sliding" -> SLIDING_FRAMES
      [] state = "Falling" -> FALLING_FRAMES
      [] state = "KnockedOut" -> FALLING_FRAMES

\* RedHatBoy::frame_name: the index in "{name} ({index}).png"
sprite_index(self) == (self.frame \div 3) + 1

\* RedHatBoy::destination_box
destination_box(self) ==
    Rect(self.position.x + SPRITE_SOURCE_X, self.position.y + SPRITE_SOURCE_Y,
         SPRITE_W, SPRITE_H)

\* RedHatBoy::bounding_box
bounding_box(self) ==
    LET d == destination_box(self)
    IN  Rect(d.position.x + X_OFFSET, d.position.y + Y_OFFSET,
             d.width - WIDTH_OFFSET, d.height - Y_OFFSET)

(***************************************************************************)
(* Obstacles.  An obstacle is [kind, position, bounding_boxes]; a Barrier  *)
(* has the single bounding box of its image.                               *)
(***************************************************************************)
Barrier_new(x, y) ==
    [kind |-> "Barrier", position |-> Point(x, y),
     bounding_boxes |-> <<Rect(x, y, STONE_WIDTH, STONE_HEIGHT)>>]

\* Platform::new
Platform_new(position, boxes) ==
    [kind |-> "Platform", position |-> position,
     bounding_boxes |-> [i \in 1..Len(boxes) |->
         Rect(boxes[i].position.x + position.x, boxes[i].position.y + position.y,
              boxes[i].width, boxes[i].height)]]

FLOATING_PLATFORM_BOUNDING_BOXES ==
    <<Rect(0, 0, 60, 54), Rect(60, 0, 384 - (60 * 2), 93), Rect(384 - 60, 0, 60, 54)>>

\* Obstacle::move_horizontally (Barrier and Platform)
move_horizontally(o, x) ==
    [o EXCEPT !.position.x = o.position.x + x,
              !.bounding_boxes = [i \in 1..Len(o.bounding_boxes) |->
                  set_x(o.bounding_boxes[i], o.bounding_boxes[i].position.x + x)]]

\* Obstacle::right (Barrier: image.right(); Platform: the last bounding box)
obstacle_right(o) ==
    IF Len(o.bounding_boxes) = 0 THEN 0
    ELSE right(o.bounding_boxes[Len(o.bounding_boxes)])

\* the first bounding box of a platform the player intersects, 0 if none
find_box(o, self) ==
    LET hit == {i \in 1..Len(o.bounding_boxes) :
                   intersects(bounding_box(self), o.bounding_boxes[i])}
    IN  IF hit = {} THEN 0 ELSE CHOOSE i \in hit : \A j \in hit : i <= j

\* Barrier::check_intersection landing a player that moves down
Barrier_check_intersection_Lands(o, self) ==
    IF intersects(bounding_box(self), o.bounding_boxes[1])
    THEN IF self.velocity.y > 0
         THEN Event("Land", o.bounding_boxes[1].position.y)
         ELSE Event("KnockOut", 0)
    ELSE Event("None", 0)

\* Barrier::check_intersection: the event emitted, type "None" for none
Barrier_check_intersection(o, self) ==
    IF intersects(bounding_box(self), o.bounding_boxes[1])
    THEN Event("KnockOut", 0)
    ELSE Event("None", 0)

\* Platform::check_intersection landing whatever the player's height
Platform_check_intersection_AnyDown(o, self) ==
    LET i == find_box(o, self)
    IN  IF i = 0 THEN Event("None", 0)
        ELSE IF self.velocity.y > 0
             THEN Event("Land", o.bounding_boxes[i].position.y)
             ELSE Event("KnockOut", 0)

\* Platform::check_intersection: the event emitted, type "None" for none
Platform_check_intersection(o, self) ==
    LET i == find_box(o, self)
    IN  IF i = 0 THEN Event("None", 0)
        ELSE IF self.velocity.y > 0 /\ self.position.y < o.position.y
             THEN Event("Land", o.bounding_boxes[i].position.y)
             ELSE Event("KnockOut", 0)

\* the event an obstacle emits for the player (dyn Obstacle dispatch)
emitted(o, self) ==
    IF o.kind = "Barrier" THEN Barrier_check_intersection(o, self)
    ELSE Platform_check_intersection(o, self)

\* Obstacle::check_intersection: the player after the emitted event
check_intersection(o, self) ==
    LET e == emitted(o, self)
    IN  IF e.type = "None" THEN self ELSE transition(self, e, TRUE)

\* the larger of two integers
Max(a, b) == IF a >= b THEN a ELSE b

RECURSIVE rightmost_from(_, _)
rightmost_from(obstacle_list, i) ==
    IF i > Len(obstacle_list) THEN -32768
    ELSE Max(obstacle_right(obstacle_list[i]), rightmost_from(obstacle_list, i + 1))

\* rightmost
rightmost(obstacle_list) ==
    IF Len(obstacle_list) = 0 THEN 0 ELSE rightmost_from(obstacle_list, 1)

(***************************************************************************)
(* segments                                                                *)
(***************************************************************************)
stone_and_platform(offset_x) ==
    << Barrier_new(offset_x + INITIAL_STONE_OFFSET, STONE_ON_GROUND),
       Platform_new(Point(offset_x + FIRST_PLATFORM, LOW_PLATFORM),
                    FLOATING_PLATFORM_BOUNDING_BOXES) >>

platform_and_stone(offset_x) ==
    << Platform_new(Point(offset_x + FIRST_PLATFORM, LOW_PLATFORM),
                    FLOATING_PLATFORM_BOUNDING_BOXES),
       Barrier_new(offset_x + FIRST_PLATFORM + 384 + INITIAL_STONE_OFFSET, STONE_ON_GROUND) >>

Keys == {"ArrowRight", "Space", "ArrowDown"}

\* machine .. ui: the game and its Walk; ticks, episodes: the Walking ticks of
\* the episode and the restarts so far; last: the operation or event last
\* applied; since: the Update ticks since the player entered Sliding or Falling;
\* game_loop: the GameLoop of the engine; calls: the calls its last callback
\* made on the game; loader: the state a load_image call shares with its
\* callbacks
VARIABLES machine, boy, backgrounds, obstacles, timeline, new_game_event, ui,
          ticks, episodes, last, since, game_loop, calls, loader

vars == <<machine, boy, backgrounds, obstacles, timeline, new_game_event, ui,
          ticks, episodes, last, since, game_loop, calls, loader>>

engine == <<game_loop, calls, loader>>

\* GameLoop before its first callback, the clock at its start
GameLoop_new == [last_frame |-> 0, accumulated_delta |-> 0]

\* load_image before a callback has fired: the sender in its slot, nothing
\* sent on the channel
Loader_new == [slot |-> TRUE, channel |-> <<>>, fired |-> <<>>]

\* the engine at rest
EngineIdle == game_loop = GameLoop_new /\ calls = <<>> /\ loader = Loader_new

world == <<machine, backgrounds, obstacles, timeline, new_game_event, ui, ticks, episodes>>


(***************************************************************************)
(* The game: WalkTheDog, its state machine and the Walk it owns.           *)
(***************************************************************************)
Op(name) == Event(name, 0)

\* an update of the game together with the keys it was given
KeyOp(name, keystate) == [type |-> name, position |-> 0, keystate |-> keystate]

\* WalkTheDog::new: no state machine yet
Init ==
    /\ machine = "None"
    /\ boy = Idle_new
    /\ backgrounds = <<0, 0>>
    /\ obstacles = <<>>
    /\ timeline = 0
    /\ new_game_event = 0
    /\ ui = 0
    /\ ticks = 0
    /\ episodes = 0
    /\ last = Op("None")
    /\ since = 0
    /\ EngineIdle

\* an update that takes the machine out of its slot and drops the result
replace_Dropped(state) == "None"

\* WalkTheDog::update: self.machine.replace(machine.update(keystate)) puts
\* the state the inner update returned into the slot take() emptied
replace(state) == state

\* a match on self.machine that takes every instance for a new one
initialized_Never(m) == m # m

\* match self.machine: Some(_)
initialized(m) == m # "None"

\* WalkTheDog::initialize on an instance without a machine
Initialize ==
    /\ ~initialized(machine)
    /\ machine' = "Ready"
    /\ boy' = Idle_new
    /\ backgrounds' = <<0, BACKGROUND_WIDTH>>
    /\ obstacles' = stone_and_platform(0)
    /\ timeline' = rightmost(stone_and_platform(0))
    /\ last' = Op("Initialize")
    /\ UNCHANGED <<new_game_event, ui, ticks, episodes, since>>
    /\ UNCHANGED engine

\* ReadyEndState completing on the jump key
ready_end_state_Space(keystate) == IF "Space" \in keystate THEN "Walking" ELSE "Ready"

\* ReadyEndState: Complete (Walking) when ArrowRight is pressed
ready_end_state(keystate) == IF "ArrowRight" \in keystate THEN "Walking" ELSE "Ready"

\* WalkingEndState converting Complete to Ready
walking_end_state_ToReady(self) == IF knocked_out(self) THEN "Ready" ELSE "Walking"

\* WalkingEndState: Complete (GameOver) when the player is knocked out
walking_end_state(self) == IF knocked_out(self) THEN "GameOver" ELSE "Walking"

\* new_game staying in GameOver when the prompt cannot be removed
new_game_Strict(hide_ok) == IF hide_ok THEN "Ready" ELSE "GameOver"

\* WalkTheDogState<GameOver>::new_game: Ready, whatever hide_ui returns
new_game(hide_ok) == "Ready"

\* a receiver that outlives the game over it was made for
unbounded_Shared(queued) == queued

\* futures::channel::mpsc::unbounded: a channel just made, or dropped with
\* its GameOver state, holds no click
unbounded(queued) == 0

\* browser::draw_ui: one more element in the #ui container
draw_ui(children) == children + 1

\* browser::hide_ui: the container emptied, or left as it is on Err
hide_ui(children, hide_ok) == IF hide_ok THEN 0 ELSE children

\* GameOverEndState: Complete (Ready) when a click was received
game_over_end_state(pressed) == IF pressed THEN "Ready" ELSE "GameOver"

\* new_game_pressed taking an empty channel for a click
new_game_pressed_Always(queued) == queued >= 0

\* GameOver::new_game_pressed: try_next yields a queued click
new_game_pressed(queued) == queued > 0

\* WalkTheDogState<Ready>::update, start_running
ReadyUpdate ==
    /\ machine = "Ready"
    /\ \E keystate \in SUBSET Keys :
         LET updated == transition(boy, Event("Update", 0), TRUE)
         IN  /\ boy' = IF "ArrowRight" \in keystate
                       THEN transition(updated, Event("Run", 0), TRUE)
                       ELSE updated
             /\ machine' = replace(ready_end_state(keystate))
             /\ last' = KeyOp("ReadyUpdate", keystate)
    /\ UNCHANGED <<backgrounds, obstacles, timeline, new_game_event, ui, ticks, episodes, since>>
    /\ UNCHANGED engine

\* scrolling that wraps a background to the second one's starting place
scroll_backgrounds_ToStart(bgs, walking_speed) ==
    LET first == bgs[1] + walking_speed
        second == bgs[2] + walking_speed
        first2 == IF first + BACKGROUND_WIDTH < 0 THEN BACKGROUND_WIDTH ELSE first
        second2 == IF second + BACKGROUND_WIDTH < 0 THEN BACKGROUND_WIDTH ELSE second
    IN  <<first2, second2>>

\* the two backgrounds after scrolling and wrapping
scroll_backgrounds(bgs, walking_speed) ==
    LET first == bgs[1] + walking_speed
        second == bgs[2] + walking_speed
        first2 == IF first + BACKGROUND_WIDTH < 0 THEN second + BACKGROUND_WIDTH ELSE first
        second2 == IF second + BACKGROUND_WIDTH < 0 THEN first2 + BACKGROUND_WIDTH ELSE second
    IN  <<first2, second2>>

\* retain that keeps an obstacle until it is a threshold behind the left edge
retain_Late(obstacle_list) ==
    SelectSeq(obstacle_list, LAMBDA o : obstacle_right(o) > -TIMELINE_MINIMUM)

\* retain that keeps every obstacle
retain_All(obstacle_list) == obstacle_list

\* obstacles.retain(|obstacle| obstacle.right() > 0)
retain(obstacle_list) == SelectSeq(obstacle_list, LAMBDA o : obstacle_right(o) > 0)

\* obstacles.iter_mut().for_each: move each obstacle, then check it against
\* the player as left by the obstacles before it
RECURSIVE collide(_, _, _, _)
collide(obstacle_list, i, walking_speed, self) ==
    IF i > Len(obstacle_list) THEN self
    ELSE collide(obstacle_list, i + 1, walking_speed,
                 check_intersection(move_horizontally(obstacle_list[i], walking_speed), self))

\* generate_next_segment placing the segment at the cursor itself
next_obstacles_NoBuffer(next_segment, cursor) ==
    IF next_segment = 0 THEN stone_and_platform(cursor)
    ELSE platform_and_stone(cursor)

\* Walk::generate_next_segment: the obstacles of the chosen segment
next_obstacles(next_segment, cursor) ==
    IF next_segment = 0 THEN stone_and_platform(cursor + OBSTACLE_BUFFER)
    ELSE platform_and_stone(cursor + OBSTACLE_BUFFER)

\* the player part of a Walking tick with the slide read before the jump
walking_events_SlideFirst(self, keystate, play_ok) ==
    LET slid == IF "ArrowDown" \in keystate
                THEN transition(self, Event("Slide", 0), TRUE) ELSE self
        jumped == IF "Space" \in keystate
                  THEN transition(slid, Event("Jump", 0), play_ok) ELSE slid
    IN  transition(jumped, Event("Update", 0), TRUE)

\* WalkTheDogState<Walking>::update, the player part: jump if Space is
\* pressed, slide if ArrowDown is pressed, update
walking_events(self, keystate, play_ok) ==
    LET jumped == IF "Space" \in keystate
                  THEN transition(self, Event("Jump", 0), play_ok) ELSE self
        slid == IF "ArrowDown" \in keystate
                THEN transition(jumped, Event("Slide", 0), TRUE) ELSE jumped
    IN  transition(slid, Event("Update", 0), TRUE)

\* Walk::velocity
velocity(self) == -self.velocity.x

\* a cursor left where it is while the obstacles scroll
scroll_timeline_Still(cursor, walking_speed) == cursor

\* self.walk.timeline += walking_speed
scroll_timeline(cursor, walking_speed) == cursor + walking_speed

\* a generation test that holds whatever the cursor
generates_Always(cursor) == cursor < TIMELINE_MINIMUM \/ cursor >= TIMELINE_MINIMUM

\* if self.walk.timeline < TIMELINE_MINIMUM
generates(cursor) == cursor < TIMELINE_MINIMUM

\* WalkTheDogState<Walking>::update, end_game; keystates: the key sets the
\* tick may read; draw_ok: the prompt can be drawn and its button found, so
\* that the unwrap in end_game succeeds
WalkingTick(keystates, draw_ok) ==
    /\ machine = "Walking"
    /\ ticks < MaxTicks
    /\ \E keystate \in keystates, play_ok \in BOOLEAN, next_segment \in 0..1 :
         LET updated == walking_events(boy, keystate, play_ok)
             walking_speed == velocity(updated)
             kept == retain(obstacles)
             moved == [i \in 1..Len(kept) |-> move_horizontally(kept[i], walking_speed)]
             checked == collide(kept, 1, walking_speed, updated)
             generated == next_obstacles(next_segment, timeline)
         IN  /\ (("Space" \in keystate /\ boy.state = "Running") \/ play_ok)
             /\ (generates(timeline) \/ next_segment = 0)
             /\ boy' = checked
             /\ backgrounds' = scroll_backgrounds(backgrounds, walking_speed)
             /\ IF generates(timeline)
                THEN /\ timeline' = rightmost(generated)
                     /\ obstacles' = moved \o generated
                ELSE /\ timeline' = scroll_timeline(timeline, walking_speed)
                     /\ obstacles' = moved
             /\ (draw_ok \/ knocked_out(checked))
             /\ machine' = (IF draw_ok THEN replace(walking_end_state(checked))
                            ELSE "Panicked")
             /\ IF knocked_out(checked) /\ draw_ok
                THEN /\ ui' = draw_ui(ui)
                     /\ new_game_event' = unbounded(new_game_event)
                ELSE UNCHANGED <<ui, new_game_event>>
             /\ last' = (IF draw_ok THEN Op("WalkingUpdate") ELSE Op("Panic"))
    /\ ticks' = ticks + 1
    /\ UNCHANGED <<episodes, since>>
    /\ UNCHANGED engine

\* a Walking tick on a page where the prompt can be drawn
WalkingUpdate == WalkingTick(SUBSET Keys, TRUE)

\* the click handler of the New Game button sends on the channel
Click ==
    /\ machine = "GameOver"
    /\ ui > 0
    /\ new_game_event < MaxClicks
    /\ new_game_event' = new_game_event + 1
    /\ last' = Op("Click")
    /\ UNCHANGED <<machine, boy, backgrounds, obstacles, timeline, ui, ticks, episodes, since>>
    /\ UNCHANGED engine

\* WalkTheDogState<GameOver>::update, new_game, Walk::reset; hide_ok: the
\* prompt can be removed, otherwise new_game logs the Err of hide_ui
GameOverTick(hide_ok) ==
    /\ machine = "GameOver"
    /\ (hide_ok \/ new_game_pressed(new_game_event))
    /\ machine' = replace(IF game_over_end_state(new_game_pressed(new_game_event)) = "Ready"
                           THEN new_game(hide_ok) ELSE "GameOver")
    /\ IF new_game_pressed(new_game_event)
       THEN /\ episodes < MaxEpisodes
            /\ new_game_event' = unbounded(new_game_event - 1)
            /\ ui' = hide_ui(ui, hide_ok)
            /\ boy' = RedHatBoy_reset(boy)
            /\ obstacles' = stone_and_platform(0)
            /\ timeline' = rightmost(stone_and_platform(0))
            /\ ticks' = 0
            /\ episodes' = episodes + 1
            /\ UNCHANGED backgrounds
       ELSE UNCHANGED <<boy, backgrounds, obstacles, timeline,
                        new_game_event, ui, ticks, episodes>>
    /\ last' = (IF hide_ok THEN Op("GameOverUpdate") ELSE Op("HideFailed"))
    /\ UNCHANGED since
    /\ UNCHANGED engine

\* a GameOver tick on a page where the prompt can be removed
GameOverUpdate == GameOverTick(TRUE)

Next == Initialize \/ ReadyUpdate \/ WalkingUpdate \/ Click \/ GameOverUpdate

Spec == Init /\ [][Next]_vars

(***************************************************************************)
(* The game on a page where the prompt may fail to be drawn or removed:    *)
(* draw_ui or find_html_element_by_id returns Err and end_game unwraps it, *)
(* hide_ui returns Err and new_game logs it.  The walk is played with the  *)
(* keys of UiKeys; what the prompt and the channel do does not depend on   *)
(* the keys read while walking.                                            *)
(***************************************************************************)
WalkingUpdateUi == WalkingTick(UiKeys, TRUE)

WalkingUpdateNoUi == WalkingTick(UiKeys, FALSE)

GameOverUpdateNoHide == GameOverTick(FALSE)

\* a click on a button left by a failed hide_ui: its receiver was dropped
\* with the GameOver state it belonged to, the send fails
StaleClick ==
    /\ ui > (IF machine = "GameOver" THEN 1 ELSE 0)
    /\ last' = Op("StaleClick")
    /\ UNCHANGED <<world, boy, since>>
    /\ UNCHANGED engine

NextUi ==
    \/ Initialize
    \/ ReadyUpdate
    \/ WalkingUpdateUi
    \/ WalkingUpdateNoUi
    \/ Click
    \/ GameOverUpdate
    \/ GameOverUpdateNoHide
    \/ StaleClick

SpecUi == Init /\ [][NextUi]_vars

(***************************************************************************)
(* The obstacle timeline over a walk of any length.  The player a Walking  *)
(* tick is left with is drawn from TimelineBoys, a player that runs and    *)
(* one that has been knocked out and stands still, so that the walk is not *)
(* cut short by a collision and needs no bound on its ticks: the obstacle  *)
(* list and the cursor depend on the player through the walking speed.     *)
(***************************************************************************)
TimelineBoys == {Idle_run(Idle_new), Running_knock_out(Idle_run(Idle_new))}

\* the state start_running leaves: Walking, the walk built by initialize
InitTimeline ==
    /\ machine = "Walking"
    /\ boy = Idle_run(Idle_new)
    /\ backgrounds = <<0, BACKGROUND_WIDTH>>
    /\ obstacles = stone_and_platform(0)
    /\ timeline = rightmost(stone_and_platform(0))
    /\ new_game_event = 0
    /\ ui = 0
    /\ ticks = 0
    /\ episodes = 0
    /\ last = KeyOp("ReadyUpdate", {"ArrowRight"})
    /\ since = 0
    /\ EngineIdle

\* WalkTheDogState<Walking>::update from walking_speed on: scroll the
\* backgrounds, prune, scroll the obstacles, generate or move the cursor
TimelineTick ==
    /\ machine = "Walking"
    /\ \E updated \in TimelineBoys, next_segment \in 0..1 :
         LET walking_speed == velocity(updated)
             kept == retain(obstacles)
             moved == [i \in 1..Len(kept) |-> move_horizontally(kept[i], walking_speed)]
             generated == next_obstacles(next_segment, timeline)
         IN  /\ (generates(timeline) \/ next_segment = 0)
             /\ boy' = updated
             /\ backgrounds' = scroll_backgrounds(backgrounds, walking_speed)
             /\ IF generates(timeline)
                THEN /\ timeline' = rightmost(generated)
                     /\ obstacles' = moved \o generated
                ELSE /\ timeline' = scroll_timeline(timeline, walking_speed)
                     /\ obstacles' = moved
    /\ last' = Op("WalkingUpdate")
    /\ UNCHANGED <<machine, new_game_event, ui, ticks, episodes, since>>
    /\ UNCHANGED engine

NextTimeline == TimelineTick

SpecTimeline == InitTimeline /\ [][NextTimeline]_vars

(***************************************************************************)
(* The game with its draw calls.  The renderer's calls are recorded in     *)
(* last.steps, each with the operation and the x position drawn at.        *)
(***************************************************************************)
Step(op, x) == [op |-> op, x |-> x]

\* a Walk::draw that draws the obstacles beneath the player
Walk_draw_ObstaclesFirst(bgs, self, obstacle_list) ==
    [i \in 1..Len(bgs) |-> Step("background", bgs[i])]
    \o [i \in 1..Len(obstacle_list) |-> Step("obstacle", obstacle_list[i].position.x)]
    \o <<Step("boy", self.position.x)>>

\* Walk::draw: the backgrounds, the player, the obstacles
Walk_draw(bgs, self, obstacle_list) ==
    [i \in 1..Len(bgs) |-> Step("background", bgs[i])]
    \o <<Step("boy", self.position.x)>>
    \o [i \in 1..Len(obstacle_list) |-> Step("obstacle", obstacle_list[i].position.x)]

\* WalkTheDog::draw: clear, then the machine's draw if there is one
WalkTheDog_draw(m, bgs, self, obstacle_list) ==
    <<Step("clear", 0)>>
    \o (IF initialized(m) THEN Walk_draw(bgs, self, obstacle_list) ELSE <<>>)

\* Game::draw, called by the loop after the updates of a frame
Draw ==
    /\ last' = [type |-> "Draw", position |-> 0,
                steps |-> WalkTheDog_draw(machine, backgrounds, boy, obstacles)]
    /\ UNCHANGED <<world, boy, since>>
    /\ UNCHANGED engine

NextDraw ==
    \/ Initialize
    \/ ReadyUpdate
    \/ WalkingUpdateUi
    \/ Click
    \/ GameOverUpdate
    \/ Draw

SpecDraw == Init /\ [][NextDraw]_vars

(***************************************************************************)
(* The player of a walk without obstacles, each Walking tick recorded with *)
(* the keys it read.                                                       *)
(***************************************************************************)
InitKeys ==
    /\ machine = "Walking"
    /\ boy = Idle_run(Idle_new)
    /\ backgrounds = <<0, BACKGROUND_WIDTH>>
    /\ obstacles = <<>>
    /\ timeline = 0
    /\ new_game_event = 0
    /\ ui = 0
    /\ ticks = 0
    /\ episodes = 0
    /\ last = KeyOp("ReadyUpdate", {"ArrowRight"})
    /\ since = 0
    /\ EngineIdle

\* WalkTheDogState<Walking>::update, the keys and the player
KeysTick ==
    /\ machine = "Walking"
    /\ \E keystate \in SUBSET Keys, play_ok \in BOOLEAN :
         /\ (("Space" \in keystate /\ boy.state = "Running") \/ play_ok)
         /\ boy' = walking_events(boy, keystate, play_ok)
         /\ last' = KeyOp("WalkingUpdate", keystate)
    /\ UNCHANGED <<world, since>>
    /\ UNCHANGED engine

NextKeys == KeysTick

SpecKeys == InitKeys /\ [][NextKeys]_vars

(***************************************************************************)
(* The engine: load_image and the loop of GameLoop::start.  Time is        *)
(* counted in units of 1/60 ms, in which FRAME_SIZE, 1/60 * 1000 ms, is    *)
(* the integer 1000.  start loads the game's image before it requests the  *)
(* first animation frame; the browser may fire the image's callbacks in    *)
(* any order and more than once.                                           *)
(***************************************************************************)
FRAME_SIZE == 1000

\* the time between two animation frames: none, a part of a slice, a slice
\* more or less one unit, several slices
Deltas == {0, 1, FRAME_SIZE - 1, FRAME_SIZE, FRAME_SIZE + 1,
           2 * FRAME_SIZE, 2 * FRAME_SIZE + 1, 3 * FRAME_SIZE}

\* a loop that also updates when exactly one slice has accumulated
frame_due_Whole(accumulated_delta) == accumulated_delta >= FRAME_SIZE

\* while game_loop.accumulated_delta > FRAME_SIZE
frame_due(accumulated_delta) == accumulated_delta > FRAME_SIZE

\* the while loop of the callback: game.update() and a slice taken off the
\* accumulator for as long as a frame is due
RECURSIVE run_updates(_, _)
run_updates(accumulated_delta, made) ==
    IF frame_due(accumulated_delta)
    THEN run_updates(accumulated_delta - FRAME_SIZE, Append(made, "update"))
    ELSE [accumulated_delta |-> accumulated_delta, calls |-> made]

\* callbacks that each hold a sender of their own
callback_Clones(ld, name, result) ==
    [ld EXCEPT !.channel = Append(@, result), !.fired = Append(@, name)]

\* success_callback and error_callback: take the sender out of the shared
\* slot and send, or do nothing if the slot is empty
callback(ld, name, result) ==
    IF ld.slot
    THEN [ld EXCEPT !.slot = FALSE, !.channel = Append(@, result), !.fired = Append(@, name)]
    ELSE [ld EXCEPT !.fired = Append(@, name)]

\* the image's onload fires
OnLoad ==
    /\ Len(loader.fired) < MaxFired
    /\ loader' = callback(loader, "onload", "Ok")
    /\ last' = Op("OnLoad")
    /\ UNCHANGED <<world, boy, since, game_loop, calls>>

\* the image's onerror fires
OnError ==
    /\ Len(loader.fired) < MaxFired
    /\ loader' = callback(loader, "onerror", "Err")
    /\ last' = Op("OnError")
    /\ UNCHANGED <<world, boy, since, game_loop, calls>>

\* the closure given to request_animation_frame, called with the time perf
\* once initialize has returned Ok
RafCallback ==
    /\ loader.channel # <<>>
    /\ loader.channel[1] = "Ok"
    /\ game_loop.last_frame < MaxPerf
    /\ \E delta \in Deltas :
         LET perf == game_loop.last_frame + delta
             ran == run_updates(game_loop.accumulated_delta + (perf - game_loop.last_frame),
                                <<>>)
         IN  /\ game_loop' = [last_frame |-> perf,
                              accumulated_delta |-> ran.accumulated_delta]
             /\ calls' = Append(ran.calls, "draw")
    /\ last' = Op("RafCallback")
    /\ UNCHANGED <<world, boy, since, loader>>

NextEngine == OnLoad \/ OnError \/ RafCallback

SpecEngine == Init /\ [][NextEngine]_vars

(***************************************************************************)
(* initialize called again: the instance built by initialize, ticking in   *)
(* Ready or just moved to Walking, is asked to initialize once more.       *)
(***************************************************************************)
\* WalkTheDog::initialize on an instance holding a machine: Err
InitializeRejected ==
    /\ initialized(machine)
    /\ last' = Op("InitializeError")
    /\ UNCHANGED <<world, boy, since>>
    /\ UNCHANGED engine

NextInitialize == Initialize \/ InitializeRejected \/ ReadyUpdate

SpecInitialize == Init /\ [][NextInitialize]_vars

(***************************************************************************)
(* The player state machine driven directly by events: the methods of      *)
(* RedHatBoy, each replacing state_machine by its transition.              *)
(***************************************************************************)
InitBoy ==
    /\ machine = "None"
    /\ backgrounds = <<0, 0>>
    /\ obstacles = <<>>
    /\ timeline = 0
    /\ new_game_event = 0
    /\ ui = 0
    /\ ticks = 0
    /\ episodes = 0
    /\ boy = Idle_new
    /\ last = Event("None", 0)
    /\ since = 0
    /\ EngineIdle

\* the Update ticks since the player entered Sliding or Falling, kept through
\* the step that leaves the state and in KnockedOut
ticks_since(old, new, event, n) ==
    CASE new.state \in {"Sliding", "Falling"} /\ old.state # new.state -> 0
      [] new.state \in {"Sliding", "Falling"} /\ event.type = "Update" -> n + 1
      [] new.state \in {"Sliding", "Falling", "KnockedOut"} /\ old.state = new.state -> n
      [] old.state \in {"Sliding", "Falling"} /\ event.type = "Update" -> n + 1
      [] OTHER -> 0

Apply(event, play_ok) ==
    /\ boy' = transition(boy, event, play_ok)
    /\ last' = event
    /\ since' = ticks_since(boy, boy', event, since)
    /\ UNCHANGED world
    /\ UNCHANGED engine

BoyRun == Apply(Event("Run", 0), TRUE)

BoySlide == Apply(Event("Slide", 0), TRUE)

BoyJump == \E play_ok \in BOOLEAN : Apply(Event("Jump", 0), play_ok)

BoyUpdate == Apply(Event("Update", 0), TRUE)

BoyKnockOut == Apply(Event("KnockOut", 0), TRUE)

BoyLand == \E y \in SurfaceYs : boy.velocity.y > 0 /\ Apply(Event("Land", y), TRUE)

NextBoy == BoyRun \/ BoySlide \/ BoyJump \/ BoyUpdate \/ BoyKnockOut \/ BoyLand

SpecBoy == InitBoy /\ [][NextBoy]_vars

(***************************************************************************)
(* One collision check of a platform against a player: the inputs of       *)
(* Platform::check_intersection are drawn by InitHit, PlatformHit applies   *)
(* it once.                                                                *)
(***************************************************************************)
InitHit ==
    /\ machine = "Walking"
    /\ boy \in {Boy(st, 0, Point(STARTING_POINT, py), Point(0, vy)) :
                  st \in {"Running", "Jumping", "Sliding", "Falling", "KnockedOut"},
                  py \in HitYs, vy \in HitVys}
    /\ \E x \in HitXs :
         obstacles = <<Platform_new(Point(x, LOW_PLATFORM), FLOATING_PLATFORM_BOUNDING_BOXES)>>
    /\ backgrounds = <<0, BACKGROUND_WIDTH>>
    /\ timeline = rightmost(obstacles)
    /\ new_game_event = 0
    /\ ui = 0
    /\ ticks = 0
    /\ episodes = 0
    /\ last = Op("None")
    /\ since = 0
    /\ EngineIdle

PlatformHit ==
    /\ last.type = "None"
    /\ boy' = check_intersection(obstacles[1], boy)
    /\ last' = IF emitted(obstacles[1], boy).type = "None"
               THEN Op("NoHit") ELSE emitted(obstacles[1], boy)
    /\ UNCHANGED <<world, since>>
    /\ UNCHANGED engine

NextHit == PlatformHit

SpecHit == InitHit /\ [][NextHit]_vars

(***************************************************************************)
(* One collision check of a barrier against a player: the inputs of        *)
(* Barrier::check_intersection are drawn by InitBarrier, BarrierHit         *)
(* applies it once.  The player is in a state it has while Walking, moving  *)
(* right unless it is Falling or KnockedOut.                               *)
(***************************************************************************)
\* frame counters of the players drawn
HitFrames == {0, 7}

HitBoys ==
    {Boy(st, fr, Point(STARTING_POINT, py), Point(RUNNING_SPEED, vy)) :
        st \in {"Running", "Jumping", "Sliding"},
        fr \in HitFrames, py \in HitYs, vy \in HitVys}
    \cup {Boy(st, fr, Point(STARTING_POINT, py), Point(0, vy)) :
        st \in {"Falling", "KnockedOut"},
        fr \in HitFrames, py \in HitYs, vy \in HitVys}

InitBarrier ==
    /\ machine = "Walking"
    /\ boy \in HitBoys
    /\ \E x \in HitXs : obstacles = <<Barrier_new(x, STONE_ON_GROUND)>>
    /\ backgrounds = <<0, BACKGROUND_WIDTH>>
    /\ timeline = rightmost(obstacles)
    /\ new_game_event = 0
    /\ ui = 0
    /\ ticks = 0
    /\ episodes = 0
    /\ last = Op("None")
    /\ since = 0
    /\ EngineIdle

BarrierHit ==
    /\ last.type = "None"
    /\ obstacles[1].kind = "Barrier"
    /\ boy' = check_intersection(obstacles[1], boy)
    /\ last' = IF emitted(obstacles[1], boy).type = "None"
               THEN Op("NoHit") ELSE emitted(obstacles[1], boy)
    /\ UNCHANGED <<world, since>>
    /\ UNCHANGED engine

NextBarrier == BarrierHit

SpecBarrier == InitBarrier /\ [][NextBarrier]_vars

(***************************************************************************)
(* One Land event applied to a player: the inputs of transition are drawn  *)
(* by InitLand, LandOn applies Event::Land once.                           *)
(***************************************************************************)
\* surfaces on the screen: its top, the tops of a low platform and of the
\* stone, the bottom
LandYs == {0, 54, LOW_PLATFORM, STONE_ON_GROUND, HEIGHT}

\* vertical speeds of an idle player
IdleVys == {0, 1, TERMINAL_VELOCITY}

LandBoys ==
    HitBoys \cup {Boy("Idle", fr, Point(STARTING_POINT, FLOOR), Point(0, vy)) :
                     fr \in HitFrames, vy \in IdleVys}

InitLand ==
    /\ machine = "Walking"
    /\ boy \in LandBoys
    /\ obstacles = <<>>
    /\ backgrounds = <<0, BACKGROUND_WIDTH>>
    /\ timeline = 0
    /\ new_game_event = 0
    /\ ui = 0
    /\ ticks = 0
    /\ episodes = 0
    /\ last = Op("None")
    /\ since = 0
    /\ EngineIdle

LandOn ==
    /\ last.type = "None"
    /\ \E y \in LandYs : Apply(Event("Land", y), TRUE)

NextLand == LandOn

SpecLand == InitLand /\ [][NextLand]_vars

(***************************************************************************)
(* A jump with no collision: a Running player, on the floor or in the air, *)
(* gets one Jump and then an Update on every frame of the game loop.       *)
(***************************************************************************)
\* vertical speeds of a running player
RunningVys == {0, GRAVITY, TERMINAL_VELOCITY}

JumpBoys ==
    {Boy("Running", fr, Point(STARTING_POINT, py), Point(RUNNING_SPEED, vy)) :
        fr \in HitFrames, py \in HitYs, vy \in RunningVys}

InitJump ==
    /\ machine = "Walking"
    /\ boy \in JumpBoys
    /\ obstacles = <<>>
    /\ backgrounds = <<0, BACKGROUND_WIDTH>>
    /\ timeline = TIMELINE_MINIMUM
    /\ new_game_event = 0
    /\ ui = 0
    /\ ticks = 0
    /\ episodes = 0
    /\ last = Op("None")
    /\ since = 0
    /\ EngineIdle

JumpPressed ==
    /\ last.type = "None"
    /\ \E play_ok \in BOOLEAN : Apply(Event("Jump", 0), play_ok)

JumpTick ==
    /\ last.type # "None"
    /\ Apply(Event("Update", 0), TRUE)

NextJump == JumpPressed \/ JumpTick

\* the game loop keeps calling update
SpecJump == InitJump /\ [][NextJump]_vars /\ WF_vars(NextJump)

(***************************************************************************)
(* Properties.                                                             *)
(***************************************************************************)
AllEvents ==
    {Event(t, 0) : t \in EventTypes \ {"Land"}} \cup {Event("Land", y) : y \in SurfaceYs}

BoyType ==
    /\ boy.state \in States
    /\ boy.frame \in 0..255
    /\ boy.position.x \in -32768..32767
    /\ boy.position.y \in -32768..32767
    /\ boy.velocity.x \in -32768..32767
    /\ boy.velocity.y \in -32768..32767

\* C1: once the player is KnockedOut, every event (Run, Slide, Jump, Land,
\* KnockOut, Update), applied any number of times, leaves the state
\* KnockedOut and frame, position and velocity unchanged.
C1_KnockedOutAbsorbing == [][boy.state = "KnockedOut" => boy' = boy]_vars

\* a Jump has been applied to a knocked-out player
C1_Witness == boy.state = "KnockedOut" /\ last.type = "Jump"

\* the pairs outside the transition table
NoOpPairs ==
    ({"Idle"} \X {"Slide", "Jump", "KnockOut", "Land"})
    \cup ({"Running"} \X {"Run"})
    \cup ({"Jumping"} \X {"Run", "Jump", "Slide"})
    \cup ({"Sliding"} \X {"Run", "Jump", "Slide"})
    \cup ({"Falling"} \X {"Run", "Jump", "Slide", "KnockOut", "Land"})
    \cup ({"KnockedOut"} \X EventTypes)

\* C2: transition is total: in every reachable player state every event has
\* a well-formed result, and every pair outside the transition table returns
\* the same state with frame, position and velocity unchanged.
C2_TransitionTotal ==
    /\ BoyType
    /\ \A e \in AllEvents, play_ok \in BOOLEAN :
         /\ transition(boy, e, play_ok).state \in States
         /\ <<boy.state, e.type>> \in NoOpPairs => transition(boy, e, play_ok) = boy

\* a Land has been applied to a Falling player
C2_Witness == boy.state = "Falling" /\ last.type = "Land" /\ since > 0

\* C3: the outer game state changes only along Ready -> Walking -> GameOver
\* -> Ready: no step takes Ready to GameOver, Walking to Ready or GameOver to
\* Walking.
C3_GameStateCycle ==
    [][/\ machine = "Ready" => machine' \in {"Ready", "Walking"}
       /\ machine = "Walking" => machine' \in {"Walking", "GameOver"}
       /\ machine = "GameOver" => machine' \in {"GameOver", "Ready"}]_vars

\* the game is Walking again after a game over and a restart
C3_Witness == machine = "Walking" /\ episodes >= 1 /\ last.type = "ReadyUpdate"

\* C4: velocity.y never exceeds TERMINAL_VELOCITY, and an Update tick in a
\* non-terminal state raises a velocity.y below TERMINAL_VELOCITY by GRAVITY.
C4_Gravity ==
    [][/\ boy'.velocity.y <= TERMINAL_VELOCITY
       /\ (last'.type = "Update" /\ boy.state # "KnockedOut"
           /\ boy.velocity.y < TERMINAL_VELOCITY)
          => (boy'.velocity.y = boy.velocity.y + GRAVITY
              /\ boy'.velocity.y > boy.velocity.y)]_vars

\* a running player has reached terminal velocity by Update ticks
C4_Witness ==
    boy.state = "Running" /\ last.type = "Update" /\ boy.velocity.y = TERMINAL_VELOCITY

\* C5: after every Update tick, in every player state, position.y <= FLOOR.
C5_FloorClamp == [][last'.type = "Update" => boy'.position.y <= FLOOR]_vars

\* an Update tick at terminal velocity has left the player on the floor
C5_Witness ==
    /\ last.type = "Update"
    /\ boy.position.y = FLOOR
    /\ boy.velocity.y = TERMINAL_VELOCITY
    /\ boy.state = "Falling"

\* C6: a Sliding player is Sliding after each of the first SLIDING_FRAMES - 1
\* Update ticks since it entered Sliding and Running after the
\* SLIDING_FRAMES-th; Run, Jump, Slide and Land leave it Sliding and do not
\* change the count (a KnockOut ends the slide).
C6_SlideLastsBudget ==
    [][boy.state = "Sliding" =>
         CASE last'.type = "Update" ->
                IF since + 1 = SLIDING_FRAMES
                THEN boy'.state = "Running"
                ELSE since + 1 < SLIDING_FRAMES /\ boy'.state = "Sliding"
           [] last'.type = "KnockOut" -> TRUE
           [] OTHER -> boy'.state = "Sliding" /\ since' = since]_vars

\* the player has stood up SLIDING_FRAMES ticks after entering Sliding
C6_Witness == boy.state = "Running" /\ last.type = "Update" /\ since = SLIDING_FRAMES

\* C7: a Falling player is Falling after each of the first FALLING_FRAMES - 1
\* Update ticks since it entered Falling and KnockedOut after the
\* FALLING_FRAMES-th; every other event, a further KnockOut included, leaves
\* it unchanged and does not change the count.
C7_FallLastsBudget ==
    [][boy.state = "Falling" =>
         CASE last'.type = "Update" ->
                IF since + 1 = FALLING_FRAMES
                THEN boy'.state = "KnockedOut"
                ELSE since + 1 < FALLING_FRAMES /\ boy'.state = "Falling"
           [] OTHER -> boy' = boy /\ since' = since]_vars

\* the player is knocked out FALLING_FRAMES ticks after entering Falling
C7_Witness == boy.state = "KnockedOut" /\ last.type = "Update" /\ since = FALLING_FRAMES

HitBoxes ==
    {i \in 1..Len(obstacles[1].bounding_boxes) :
        intersects(bounding_box(boy), obstacles[1].bounding_boxes[i])}

\* the player moves down from above the checked platform
FromAbove == boy.velocity.y > 0 /\ boy.position.y < obstacles[1].position.y

\* C9: a platform check emits Land(top y of the first intersecting box) iff
\* some box intersects, velocity.y > 0 and position.y is less than the
\* platform's position.y; KnockOut iff some box intersects otherwise; nothing
\* iff no box intersects.
C9_PlatformTieBreak ==
    [][(last.type = "None" /\ last'.type # "None") =>
         /\ last'.type = "Land" <=> (HitBoxes # {} /\ FromAbove)
         /\ last'.type = "Land" =>
              \E i \in HitBoxes :
                 /\ \A j \in HitBoxes : i <= j
                 /\ last'.position = obstacles[1].bounding_boxes[i].position.y
         /\ last'.type = "KnockOut" <=> (HitBoxes # {} /\ ~FromAbove)
         /\ last'.type = "NoHit" <=> HitBoxes = {}]_vars

\* a jumping player has landed on the platform
C9_Witness ==
    /\ last = Event("Land", LOW_PLATFORM)
    /\ boy.state = "Running"
    /\ boy.velocity.y = 1

\* the case of scenario C: the platform is at y = 400 and the player
\* intersects its middle box while moving down from above
ScenarioC ==
    /\ last.type = "None"
    /\ obstacles[1].position.y = 400
    /\ 2 \in HitBoxes
    /\ boy.velocity.y > 0
    /\ boy.position.y < 400

\* C10 as stated: in scenario C the player ends the collision check in
\* Running with position.y = 400 - PLAYER_HEIGHT.
C10_Original ==
    [][(ScenarioC /\ last'.type # "None") =>
         (boy'.state = "Running" /\ boy'.position.y = 400 - PLAYER_HEIGHT)]_vars

\* C10: in scenario C a Running or Jumping player ends the collision check in
\* Running and a Sliding player in Sliding, each with position.y =
\* 400 - PLAYER_HEIGHT; a Falling or KnockedOut player is left unchanged.
C10_ScenarioC ==
    [][(ScenarioC /\ last'.type # "None") =>
         CASE boy.state \in {"Running", "Jumping"} ->
                boy'.state = "Running" /\ boy'.position.y = 400 - PLAYER_HEIGHT
           [] boy.state = "Sliding" ->
                boy'.state = "Sliding" /\ boy'.position.y = 400 - PLAYER_HEIGHT
           [] OTHER -> boy' = boy]_vars

\* a sliding player has landed on the middle box and is still Sliding
C10_Witness ==
    /\ last = Event("Land", 400)
    /\ boy.state = "Sliding"
    /\ boy.position.y = 400 - PLAYER_HEIGHT
    /\ obstacles[1].position.x = -100

\* the player's bounding box intersects the checked barrier
HitsBarrier == intersects(bounding_box(boy), obstacles[1].bounding_boxes[1])

\* C11 as stated: whenever the player's bounding box intersects a barrier the
\* player ends the check Falling with frame = 0 and velocity.x = 0, and the
\* barrier never emits a Land.
C11_Original ==
    [][(last.type = "None" /\ last'.type # "None") =>
         /\ last'.type # "Land"
         /\ HitsBarrier =>
              boy'.state = "Falling" /\ boy'.frame = 0 /\ boy'.velocity.x = 0]_vars

\* C11: a barrier check emits KnockOut iff the player's bounding box
\* intersects the barrier, whatever the sign of velocity.y and the side of
\* approach, and never a Land; a Running, Jumping or Sliding player that
\* intersects ends the check Falling with frame = 0 and velocity.x = 0,
\* position and velocity.y unchanged; a Falling or KnockedOut player is left
\* unchanged.
C11_ScenarioD ==
    [][(last.type = "None" /\ last'.type # "None") =>
         /\ last'.type # "Land"
         /\ last'.type = "KnockOut" <=> HitsBarrier
         /\ ~HitsBarrier => boy' = boy
         /\ HitsBarrier =>
              CASE boy.state \in {"Running", "Jumping", "Sliding"} ->
                     boy' = Boy("Falling", 0, boy.position, Point(0, boy.velocity.y))
                [] OTHER -> boy' = boy]_vars

\* a jumping player moving up has hit the barrier and is Falling
C11_Witness ==
    /\ last.type = "KnockOut"
    /\ obstacles[1].kind = "Barrier"
    /\ boy.state = "Falling"
    /\ boy.frame = 0
    /\ boy.velocity = Point(0, -27)
    /\ boy.position.y = 440
    /\ obstacles[1].position.x = 97

\* C12: a Land(surface_y) applied to a Running, Jumping or Sliding player
\* leaves position.y = surface_y - PLAYER_HEIGHT exactly, whatever the prior
\* position and velocity, and position.x and velocity unchanged.
C12_LandingExact ==
    [][(last.type = "None" /\ last'.type = "Land"
        /\ boy.state \in {"Running", "Jumping", "Sliding"}) =>
         /\ boy'.position.y = last'.position - PLAYER_HEIGHT
         /\ boy'.position.x = boy.position.x
         /\ boy'.velocity = boy.velocity]_vars

\* a player moving up below the stone's top has been set on it
C12_Witness ==
    /\ last = Event("Land", STONE_ON_GROUND)
    /\ boy.state = "Running"
    /\ boy.frame = 0
    /\ boy.position.y = STONE_ON_GROUND - PLAYER_HEIGHT
    /\ boy.velocity = Point(RUNNING_SPEED, -27)

\* C13: Land takes Running to Running and Sliding to Sliding with the frame
\* counter unchanged and Jumping to Running; in Idle, Falling and KnockedOut
\* it changes nothing, so it produces no other state.
C13_LandKeepsFamily ==
    [][(last.type = "None" /\ last'.type = "Land") =>
         CASE boy.state = "Running" -> boy'.state = "Running" /\ boy'.frame = boy.frame
           [] boy.state = "Sliding" -> boy'.state = "Sliding" /\ boy'.frame = boy.frame
           [] boy.state = "Jumping" -> boy'.state = "Running"
           [] OTHER -> boy' = boy]_vars

\* a sliding player in mid-slide has landed and kept its frame counter
C13_Witness ==
    /\ last = Event("Land", LOW_PLATFORM)
    /\ boy.state = "Sliding"
    /\ boy.frame = 7
    /\ boy.position.y = LOW_PLATFORM - PLAYER_HEIGHT
    /\ obstacles = <<>>

\* the obstacles a Walking tick leaves after those it kept
Appended == SubSeq(obstacles', Len(retain(obstacles)) + 1, Len(obstacles'))

\* the obstacles kept by a Walking tick lead the list, each scrolled
KeptFirst ==
    /\ Len(obstacles') >= Len(retain(obstacles))
    /\ \A i \in 1..Len(retain(obstacles)) :
         /\ obstacles'[i].kind = retain(obstacles)[i].kind
         /\ obstacles'[i].position.x = retain(obstacles)[i].position.x - boy.velocity.x
         /\ obstacle_right(obstacles'[i]) = obstacle_right(retain(obstacles)[i]) - boy.velocity.x

\* C14: after a Walking tick that invokes the segment generator, for either
\* template, the appended obstacles follow all existing ones, are those of a
\* template placed at the previous timeline + OBSTACLE_BUFFER, none of them
\* left of that offset, and timeline is the maximum right edge among them.
C14_Lookahead ==
    [][(last'.type = "WalkingUpdate" /\ timeline < TIMELINE_MINIMUM) =>
         /\ KeptFirst
         /\ Appended \in {stone_and_platform(timeline + OBSTACLE_BUFFER),
                          platform_and_stone(timeline + OBSTACLE_BUFFER)}
         /\ \A i \in 1..Len(Appended) :
              /\ Appended[i].position.x >= timeline + OBSTACLE_BUFFER
              /\ obstacle_right(Appended[i]) <= timeline'
         /\ \E i \in 1..Len(Appended) : obstacle_right(Appended[i]) = timeline']_vars

\* the generator has run a second time, after the starting stone was pruned,
\* and appended a platform followed by a stone
C14_Witness ==
    /\ last.type = "WalkingUpdate"
    /\ Len(obstacles) = 5
    /\ obstacles[1].kind = "Platform"
    /\ obstacles[4].kind = "Platform"
    /\ obstacles[5].kind = "Barrier"
    /\ timeline = obstacle_right(obstacles[5])
    /\ timeline > TIMELINE_MINIMUM + FIRST_PLATFORM

\* C15: a Walking tick with timeline below TIMELINE_MINIMUM appends the
\* obstacles of one segment and sets timeline to their rightmost edge, not
\* the decremented cursor; any other Walking tick appends nothing and moves
\* timeline by the scroll speed, minus the player's velocity.x.
C15_GenerationPolicy ==
    [][last'.type = "WalkingUpdate" =>
         /\ KeptFirst
         /\ IF timeline < TIMELINE_MINIMUM
            THEN /\ Len(Appended) = 2
                 /\ timeline' = rightmost(Appended)
                 /\ timeline' # timeline - boy.velocity.x
            ELSE /\ Len(Appended) = 0
                 /\ timeline' = timeline - boy.velocity.x]_vars

\* the tick after the first generation has scrolled the cursor and appended
\* nothing
C15_Witness ==
    /\ last.type = "WalkingUpdate"
    /\ ticks = 2
    /\ Len(obstacles) = 4
    /\ boy.velocity.x = RUNNING_SPEED
    /\ timeline = rightmost(stone_and_platform(rightmost(stone_and_platform(0)) + OBSTACLE_BUFFER))
                  - RUNNING_SPEED

\* C16: a Run applied to an Idle player yields Running with velocity.x =
\* RUNNING_SPEED and frame = 0, position and velocity.y unchanged.
C16_ScenarioA ==
    [][(boy.state = "Idle" /\ last'.type = "Run") =>
         boy' = Boy("Running", 0, boy.position, Point(RUNNING_SPEED, boy.velocity.y))]_vars

\* a player has started running after one idle tick
C16_Witness ==
    /\ last.type = "Run"
    /\ boy = Boy("Running", 0, Point(STARTING_POINT, FLOOR), Point(RUNNING_SPEED, GRAVITY))
    /\ machine = "None"

\* the player has landed on the floor
LandedOnFloor == boy.state = "Running" /\ boy.position.y = FLOOR

\* C17: a Jump applied to a Running player yields Jumping with velocity.y =
\* JUMP_SPEED and frame = 0; each following Update tick, with no collision
\* event, leaves the player Jumping with position.y < FLOOR or Running with
\* position.y = FLOOR, and a Jumping player is eventually Running with
\* position.y = FLOOR.
C17_ScenarioB ==
    /\ [][/\ (boy.state = "Running" /\ last'.type = "Jump") =>
               (boy' = Boy("Jumping", 0, boy.position, Point(boy.velocity.x, JUMP_SPEED)))
          /\ (boy.state = "Jumping" /\ last'.type = "Update") =>
               ((boy'.state = "Jumping" /\ boy'.position.y < FLOOR)
                \/ (boy'.state = "Running" /\ boy'.position.y = FLOOR))]_vars
    /\ (boy.state = "Jumping" ~> LandedOnFloor)

\* the jump has ended on the floor at terminal velocity
C17_Witness ==
    /\ LandedOnFloor
    /\ last.type = "Update"
    /\ boy.frame = 0
    /\ boy.velocity.y = TERMINAL_VELOCITY
    /\ timeline = TIMELINE_MINIMUM

\* C18: a GameOver update with no click queued is never blocked and leaves
\* the game in GameOver with the player, the obstacles, the backgrounds and
\* timeline as they were, however often it is repeated.
C18_ScenarioE ==
    /\ []((machine = "GameOver" /\ new_game_event = 0) => ENABLED GameOverUpdate)
    /\ [][(machine = "GameOver" /\ new_game_event = 0 /\ last'.type = "GameOverUpdate") =>
            /\ machine' = "GameOver"
            /\ UNCHANGED <<boy, obstacles, backgrounds, timeline, new_game_event, ui>>]_vars

\* the game over screen has been polled with no click queued
C18_Witness ==
    /\ machine = "GameOver"
    /\ last.type = "GameOverUpdate"
    /\ new_game_event = 0
    /\ ui > 0
    /\ boy.state = "KnockedOut"

\* the world as initialize builds it: an Idle player at the starting point,
\* the non-empty starting segment at offset 0 and its rightmost edge
Fresh(b, o, t) ==
    /\ b = Boy("Idle", 0, Point(STARTING_POINT, FLOOR), Point(0, 0))
    /\ o = stone_and_platform(0)
    /\ Len(o) > 0
    /\ \A i \in 1..Len(o) : obstacle_right(o[i]) <= t
    /\ \E i \in 1..Len(o) : obstacle_right(o[i]) = t

\* C19: a GameOver update with a click queued moves to Ready with the
\* obstacles being the non-empty starting segment at offset 0, timeline its
\* maximum right edge, the player Idle at the starting point with zero
\* velocity and frame 0, and the backgrounds where they were; initialize
\* builds the same player, obstacles and timeline.
C19_ScenarioF ==
    [][/\ (machine = "GameOver" /\ new_game_event > 0 /\ last'.type = "GameOverUpdate") =>
            (machine' = "Ready" /\ Fresh(boy', obstacles', timeline')
             /\ backgrounds' = backgrounds)
       /\ last'.type = "Initialize" =>
            (machine' = "Ready" /\ Fresh(boy', obstacles', timeline'))]_vars

\* the game has been restarted with scrolled backgrounds
C19_Witness ==
    /\ machine = "Ready"
    /\ last.type = "GameOverUpdate"
    /\ episodes >= 1
    /\ backgrounds # <<0, BACKGROUND_WIDTH>>
    /\ boy.state = "Idle"

\* C20: a Ready tick applies one Update to the (Idle) player; the game moves
\* to Walking iff ArrowRight is pressed, the player then being Running after
\* a Run, and stays Ready otherwise; Space and ArrowDown change nothing, and
\* obstacles, backgrounds and timeline are left as they were.
C20_ReadyUpdate ==
    [][(machine = "Ready" /\ last'.type = "ReadyUpdate") =>
         /\ boy.state = "Idle"
         /\ machine' = (IF "ArrowRight" \in last'.keystate THEN "Walking" ELSE "Ready")
         /\ boy'.state = (IF "ArrowRight" \in last'.keystate THEN "Running" ELSE "Idle")
         /\ boy'.velocity.x = (IF "ArrowRight" \in last'.keystate THEN RUNNING_SPEED ELSE 0)
         /\ boy'.frame = (IF "ArrowRight" \in last'.keystate \/ boy.frame >= IDLE_FRAMES
                          THEN 0 ELSE boy.frame + 1)
         /\ boy'.velocity.y = (IF boy.velocity.y < TERMINAL_VELOCITY
                               THEN boy.velocity.y + GRAVITY ELSE boy.velocity.y)
         /\ boy'.position = boy.position
         /\ UNCHANGED <<obstacles, backgrounds, timeline>>]_vars

\* the game has started walking on a tick with every key pressed
C20_Witness ==
    /\ machine = "Walking"
    /\ last.type = "ReadyUpdate"
    /\ last.keystate = Keys
    /\ boy.state = "Running"
    /\ boy.frame = 0

\* C21: a Walking tick ends in GameOver iff the player is KnockedOut at the
\* end of the tick and leaves the game Walking otherwise; the player of a
\* game in GameOver is always KnockedOut.
C21_GameOverIffKnockedOut ==
    /\ [](machine = "GameOver" => boy.state = "KnockedOut")
    /\ [][(machine = "Walking" /\ last'.type = "WalkingUpdate") =>
            /\ machine' \in {"Walking", "GameOver"}
            /\ machine' = "GameOver" <=> boy'.state = "KnockedOut"]_vars

\* a Walking tick has ended the game with the player KnockedOut
C21_Witness ==
    /\ machine = "GameOver"
    /\ last.type = "WalkingUpdate"
    /\ boy.state = "KnockedOut"
    /\ boy.frame = FALLING_FRAMES

\* C22: once the game is initialized, in every game state and across
\* resets, the two backgrounds are adjacent: the right edge of one is the
\* left edge of the other.
C22_BackgroundsContiguous ==
    machine # "None" =>
        \/ backgrounds[1] + BACKGROUND_WIDTH = backgrounds[2]
        \/ backgrounds[2] + BACKGROUND_WIDTH = backgrounds[1]

\* after a reset the second background lies left of the first, which has
\* been wrapped behind it
C22_Witness ==
    /\ machine = "Ready"
    /\ episodes >= 1
    /\ backgrounds[2] + BACKGROUND_WIDTH = backgrounds[1]
    /\ backgrounds[2] < 0

VariantChanges ==
    {<<"Idle", "Running">>, <<"Running", "Jumping">>, <<"Running", "Sliding">>,
     <<"Sliding", "Running">>, <<"Jumping", "Running">>, <<"Running", "Falling">>,
     <<"Jumping", "Falling">>, <<"Sliding", "Falling">>, <<"Falling", "KnockedOut">>}

\* C24 as stated: the frame counter is 0 after every transition that changes
\* the state variant.
C24_Original == [][boy'.state # boy.state => boy'.frame = 0]_vars

\* C24: the frame counter is 0 after every transition that changes the state
\* variant except Falling -> KnockedOut, which keeps the counter at
\* FALLING_FRAMES, the value that ended the fall.
C24_FrameResets ==
    [][boy'.state # boy.state =>
         /\ <<boy.state, boy'.state>> \in VariantChanges
         /\ boy'.frame = (IF boy'.state = "KnockedOut" THEN FALLING_FRAMES ELSE 0)]_vars

\* the fall has ended with the frame counter at the budget
C24_Witness ==
    /\ boy.state = "KnockedOut"
    /\ boy.frame = FALLING_FRAMES
    /\ last.type = "Update"

\* an Update tick that leaves an Idle, Running or Jumping player in its state
InStateTick ==
    /\ last'.type = "Update"
    /\ boy.state \in {"Idle", "Running", "Jumping"}
    /\ boy'.state = boy.state

\* C25 as stated: an in-state Update tick in Idle, Running or Jumping takes
\* the frame counter to (frame + 1) mod budget.
C25_Original ==
    [][InStateTick => boy'.frame = (boy.frame + 1) % frame_budget(boy.state)]_vars

\* C25: an in-state Update tick in Idle, Running or Jumping takes the frame
\* counter to (frame + 1) mod (budget + 1): the counter takes the values
\* 0 .. budget and wraps to 0 every budget + 1 ticks.
C25_FrameAdvance ==
    [][InStateTick =>
         /\ boy.frame \in 0..frame_budget(boy.state)
         /\ boy'.frame = (boy.frame + 1) % (frame_budget(boy.state) + 1)]_vars

\* an idle player's frame counter has reached the budget itself
C25_Witness ==
    /\ boy.state = "Idle"
    /\ boy.frame = IDLE_FRAMES
    /\ last.type = "Update"

\* C26: in every reachable player state the sprite index (frame / 3) + 1
\* lies in 1 .. (budget + 1) / 3 of the animation played: at most 10 for
\* Idle, 8 for Run, 12 for Jump, 5 for Slide and 10 for Dead, KnockedOut
\* included.
C26_FrameName ==
    /\ sprite_index(boy) \in 1..((frame_budget(boy.state) + 1) \div 3)
    /\ sprite_index(boy) <= (CASE boy.state = "Idle" -> 10
                               [] boy.state = "Running" -> 8
                               [] boy.state = "Jumping" -> 12
                               [] boy.state = "Sliding" -> 5
                               [] OTHER -> 10)

\* a long jump shows the last sprite of the Jump animation
C26_Witness ==
    /\ boy.state = "Jumping"
    /\ sprite_index(boy) = 12
    /\ boy.frame = JUMPING_FRAMES

\* C27: a Jump applied to a Running player gives the same player whether
\* the jump sound plays or fails: Jumping, frame 0, velocity.y = JUMP_SPEED,
\* position and velocity.x unchanged; the failure is not an outcome of the
\* transition.
C27_JumpSound ==
    [][(boy.state = "Running" /\ last'.type = "Jump") =>
         /\ boy' = Boy("Jumping", 0, boy.position, Point(boy.velocity.x, JUMP_SPEED))
         /\ \A play_ok \in BOOLEAN : transition(boy, Event("Jump", 0), play_ok) = boy']_vars

\* a player running on a platform has jumped
C27_Witness ==
    /\ last.type = "Jump"
    /\ boy = Boy("Jumping", 0, Point(STARTING_POINT, LOW_PLATFORM - PLAYER_HEIGHT),
                 Point(RUNNING_SPEED, JUMP_SPEED))
    /\ timeline = TIMELINE_MINIMUM

\* C28 as stated: after initialization every update call completes without
\* error or panic, the Walking tick that ends the game and builds the
\* restart prompt and its click receiver included.
C28_Original == machine # "Panicked" /\ last.type # "Panic"

\* a tick of the GameOver state, its outcome of hide_ui recorded
GameOverTicked == machine = "GameOver" /\ last'.type \in {"GameOverUpdate", "HideFailed"}

MaxObstacles == 3 * Len(stone_and_platform(0))

\* C31: the obstacle list stays within a fixed bound over a walk of any
\* length, whatever the walking speeds and the templates drawn.
C31_ObstaclesBounded == Len(obstacles) <= MaxObstacles

\* the list at its longest
C31_Witness ==
    /\ last.type = "WalkingUpdate"
    /\ Len(obstacles) = MaxObstacles
    /\ boy.state = "Running"
    /\ obstacles[MaxObstacles].kind = "Barrier"
    /\ timeline = obstacle_right(obstacles[MaxObstacles])

\* C32: draw leaves the game as it was, and in Ready, Walking and GameOver
\* its steps are: clear, the two backgrounds, the player, every obstacle in
\* list order.
C32_DrawPureOrdered ==
    [][(last'.type = "Draw") =>
         /\ UNCHANGED <<machine, boy, backgrounds, obstacles, timeline,
                        new_game_event, ui, ticks, episodes>>
         /\ (machine \in {"Ready", "Walking", "GameOver"} =>
               /\ Len(last'.steps) = 4 + Len(obstacles)
               /\ last'.steps[1].op = "clear"
               /\ \A i \in 1..2 : last'.steps[1 + i] = Step("background", backgrounds[i])
               /\ last'.steps[4] = Step("boy", boy.position.x)
               /\ \A i \in 1..Len(obstacles) :
                    last'.steps[4 + i] = Step("obstacle", obstacles[i].position.x))]_vars

\* the frozen last frame drawn in GameOver, four obstacles in the list
C32_Witness ==
    /\ machine = "GameOver"
    /\ last.type = "Draw"
    /\ Len(last.steps) = 8
    /\ boy.state = "KnockedOut"

\* C33: at the end of every tick, and after initialize and reset, the
\* lookahead cursor is the greatest right edge among the obstacles in the
\* list.
C33_CursorIsRightmost == initialized(machine) => timeline = rightmost(obstacles)

\* a tick that moved the cursor with the obstacles instead of generating
C33_Witness ==
    /\ last.type = "WalkingUpdate"
    /\ boy.state = "Jumping"
    /\ ticks = 40
    /\ Len(obstacles) = 4
    /\ timeline < rightmost(stone_and_platform(rightmost(stone_and_platform(0)) + OBSTACLE_BUFFER))
    /\ timeline = obstacle_right(obstacles[4])

\* C34: a Walking tick applies Jump if Space is pressed, then Slide if
\* ArrowDown is pressed, then one Update; with both keys pressed a Running
\* player jumps and does not slide; ArrowRight changes nothing.
C34_EventOrder ==
    [][(last'.type = "WalkingUpdate") =>
         LET keystate == last'.keystate
             jumped == IF "Space" \in keystate
                       THEN transition(boy, Event("Jump", 0), TRUE) ELSE boy
             slid == IF "ArrowDown" \in keystate
                     THEN transition(jumped, Event("Slide", 0), TRUE) ELSE jumped
         IN  /\ boy' = transition(slid, Event("Update", 0), TRUE)
             /\ ((boy.state = "Running" /\ "Space" \in keystate)
                    => (/\ boy'.state = "Jumping"
                        /\ boy'.frame = 1
                        /\ boy'.velocity.y = JUMP_SPEED + GRAVITY))
             /\ ((keystate \subseteq {"ArrowRight"})
                    => (boy' = transition(boy, Event("Update", 0), TRUE)))]_vars

\* a Running player read Space and ArrowDown in one tick and is Jumping
C34_Witness ==
    /\ last.type = "WalkingUpdate"
    /\ last.keystate = {"Space", "ArrowDown"}
    /\ boy.state = "Jumping"
    /\ boy.frame = 1
    /\ boy.position.y = FLOOR + JUMP_SPEED + GRAVITY

\* C35: the game state and the player state stay coupled: Idle in Ready,
\* one of Running, Jumping, Sliding, Falling in Walking, KnockedOut in
\* GameOver.
C35_StatesCoupled ==
    /\ (machine = "Ready" => boy.state = "Idle")
    /\ (machine = "Walking" => boy.state \in {"Running", "Jumping", "Sliding", "Falling"})
    /\ (machine = "GameOver" => boy.state = "KnockedOut")

\* the last Walking state before a game over of a later episode: the
\* player has fallen for all but one of its frames
C35_Witness ==
    /\ machine = "Walking"
    /\ episodes = 1
    /\ boy.state = "Falling"
    /\ boy.frame = FALLING_FRAMES - 1

\* C36: the horizontal speed is RUNNING_SPEED when the player is Running,
\* Jumping or Sliding and 0 when it is Idle, Falling or KnockedOut, whatever
\* events it is sent, Run included; the walking speed is 0 or -RUNNING_SPEED.
C36_TwoSpeeds ==
    /\ (boy.state \in {"Running", "Jumping", "Sliding"} => boy.velocity.x = RUNNING_SPEED)
    /\ (boy.state \in {"Idle", "Falling", "KnockedOut"} => boy.velocity.x = 0)
    /\ velocity(boy) \in {0, -RUNNING_SPEED}

\* Run sent to a player that is already moving, in the middle of a slide
C36_Witness ==
    /\ last.type = "Run"
    /\ boy.state = "Sliding"
    /\ boy.frame = 7
    /\ boy.velocity.x = RUNNING_SPEED

\* the obstacles of the list before a Walking tick lead the list after it,
\* each moved by x
ScrolledBy(x) ==
    /\ Len(obstacles') >= Len(obstacles)
    /\ \A i \in 1..Len(obstacles) : obstacles'[i] = move_horizontally(obstacles[i], x)

C39_LoopOrder ==
    [][(last'.type = "RafCallback") =>
         LET total == game_loop.accumulated_delta
                      + (game_loop'.last_frame - game_loop.last_frame)
             updates == Len(calls') - 1
         IN  /\ Len(calls') >= 1
             /\ calls'[Len(calls')] = "draw"
             /\ \A i \in 1..updates : calls'[i] = "update"
             /\ game_loop'.accumulated_delta = total - (updates * FRAME_SIZE)
             /\ game_loop'.accumulated_delta >= 0
             /\ game_loop'.accumulated_delta <= FRAME_SIZE
             /\ ((updates > 0) => (game_loop'.accumulated_delta > 0))
             /\ ((total > FRAME_SIZE) => (updates > 0))]_vars

\* three slices had accumulated: two updates, one draw, a whole slice left
C39_Witness ==
    /\ last.type = "RafCallback"
    /\ calls = <<"update", "update", "draw">>
    /\ game_loop.accumulated_delta = FRAME_SIZE
    /\ game_loop.last_frame = 3 * FRAME_SIZE

\* C40: load_image sends on its channel at most once: the first callback to
\* fire takes the sender and sends its result, every later callback, the
\* other one or the same one again, sends nothing.
C40_SentOnce ==
    /\ Len(loader.channel) <= 1
    /\ (loader.fired = <<>> => (loader.slot /\ loader.channel = <<>>))
    /\ (loader.fired # <<>> =>
          (/\ ~loader.slot
           /\ loader.channel = <<IF loader.fired[1] = "onload" THEN "Ok" ELSE "Err">>))

\* onerror fired first, then onload twice: the outcome is the error
C40_Witness ==
    /\ loader.fired = <<"onerror", "onload", "onload">>
    /\ loader.channel = <<"Err">>
    /\ last.type = "OnLoad"

====
